---- MODULE Spec2Model ----
(***************************************************************************)
(* Triathlon training platform: the workout store (API routes over         *)
(* Prisma), the client's WorkoutContext and the calendar's drag-and-drop   *)
(* reorder engine (TrainingCalendar.handleDragEnd).                        *)
(*                                                                         *)
(* A date is a day number, day 0 being a Monday, so that week w covers     *)
(* days 7*w .. 7*w+6, and a workout's time of day is its field `time`      *)
(* (the calendar makes every date it writes a local midnight).  Workout ids*)
(* (cuid strings) are modelled as the integers 1, 2, ... in creation order.*)
(* A workout row carries the fields the reorder protocol reads and writes  *)
(* (id, date, order, userId) and the fields the workout form fills in      *)
(* (type, title, description, duration, labelId).  Every async call of     *)
(* WorkoutProvider is a pending call that advances await by await, so      *)
(* calls may overlap.  Under Spec and SpecSeq the only request that fails  *)
(* is one the handlers themselves reject (a batch naming a row that is     *)
(* gone, a delete of a row that is gone, a copy of an empty week);         *)
(* SpecFault adds a copy-week whose create throws part-way.  Durations are *)
(* kept in minutes (the hook divides every one of them by 60).             *)
(*                                                                         *)
(* The reorder protocol never reads the form's fields, so Spec lets the    *)
(* user enter one form only and create MaxId workouts; SpecSeq and         *)
(* SpecFault let them enter any form and create MaxIdSeq workouts.         *)
(* The weekly summary panel is mounted in SpecSummary only: before its     *)
(* mount effect currentWeekStart is null and useWeeklyData returns early.  *)
(***************************************************************************)
EXTENDS Integers, Sequences, FiniteSets, TLC

\* ---------------------------------------------------------------- bounds
MaxId == 3          \* workouts ever created
MaxIdSeq == 4       \* workouts ever created when calls do not overlap
MaxInflight == 2    \* requests of the client that may be pending at once
NumDays == 2        \* days of a week the user works with (Mon, Tue, ...)
NumWeeks == 2       \* weeks the user works with
MaxOps == 4         \* calls of the WorkoutContext the user starts

\* ------------------------------------------------------------- constants
DaysPerWeek == 7
NoDate == 0 - 1     \* `date: undefined` of a plan item
NoId == 0           \* a falsy id
NaN == 0 - 2        \* parseInt of a part of a day id that is no number
User == "u1"        \* session.user.id of the signed-in user
NoLabel == "none"   \* a workout without labelId

\* the times of a day: 00:00:00.000, noon, 23:59:59.999
TicksPerDay == 3
Midnight == 0
EndOfDay == TicksPerDay - 1

\* Date.getTime() of the local time `time` on day `date`
Instant(date, time) == date * TicksPerDay + time

\* what the user may enter in the workout form
Form1 ==
  [type |-> "Swim", title |-> "t1", description |-> "", duration |-> 30,
   labelId |-> NoLabel]
Form2 ==
  [type |-> "Run", title |-> "t2", description |-> "d2", duration |-> 60,
   labelId |-> "l1"]
Forms == {Form1, Form2}

WeekStarts == {DaysPerWeek * w : w \in 0..(NumWeeks - 1)}
CalendarDays == {ws + d : ws \in WeekStarts, d \in 0..(NumDays - 1)}

VARIABLES
  store,      \* the workout table: a set of rows [id, date, order, userId]
  nextId,     \* the next fresh id the table hands out
  workouts,   \* WorkoutProvider's `workouts` state: a sequence of rows
  inflight,   \* the client's pending async calls, by slot
  ops,        \* calls started so far
  lastPatch,  \* the batch PATCH the server handled in the last step, if any
  lastEnd,    \* the reorder or copy-week call that ended in the last step, if any
  lastGesture, \* the drag gesture that ended in the last step, if any
  currentWeekStart,  \* WeeklySummary's week; NoDate (null) before its mount effect
  labels,     \* LabelContext's `labels`
  weeklyData, \* useWeeklyData's `weeklyData` state
  zones,      \* a list of zones handed to the two sort functions
  sortedZones \* what the two sort functions made of `zones`

sumVars == <<currentWeekStart, labels, weeklyData, zones, sortedZones>>

vars == <<store, nextId, workouts, inflight, ops, lastPatch, lastEnd,
          lastGesture, currentWeekStart, labels, weeklyData, zones, sortedZones>>

\* ---------------------------------------------------------- sequences
Range(s) == {s[k] : k \in 1..Len(s)}

\* Array.prototype.splice(i, 1) with a 0-based index
RemoveAt(s, i) == SubSeq(s, 1, i) \o SubSeq(s, i + 2, Len(s))

\* Array.prototype.splice(i, 0, x) with a 0-based index
InsertAt(s, i, x) == SubSeq(s, 1, i) \o <<x>> \o SubSeq(s, i + 1, Len(s))

\* Array.prototype.findIndex(w => w.id === id): first 0-based index or -1
FindIndex(s, id) ==
  IF \E k \in 1..Len(s) : s[k].id = id
  THEN (CHOOSE k \in 1..Len(s) :
          s[k].id = id /\ \A j \in 1..(k - 1) : s[j].id # id) - 1
  ELSE 0 - 1

\* Array.prototype.find(w => w.id === id), only used when an element exists
Find(s, id) == s[FindIndex(s, id) + 1]

\* mutant of ArrayMove: the element is put back at the front
ArrayMove_ToFront(s, from, to) == InsertAt(RemoveAt(s, from), 0, s[from + 1])

\* mutant of ArrayMove: the two elements change places
ArrayMove_Swap(s, from, to) ==
  [k \in 1..Len(s) |->
     IF k = from + 1 THEN s[to + 1] ELSE IF k = to + 1 THEN s[from + 1] ELSE s[k]]

\* @dnd-kit/sortable arrayMove: take the element out at `from`, put it back
\* at index `to` of the shortened array
ArrayMove(s, from, to) == InsertAt(RemoveAt(s, from), to, s[from + 1])

\* Array.prototype.sort((a, b) => a.order - b.order): a stable sort
RECURSIVE SortByOrder(_)
SortByOrder(s) ==
  IF Len(s) = 0 THEN <<>>
  ELSE LET init == SortByOrder(SubSeq(s, 1, Len(s) - 1))
           x == s[Len(s)]
           n == Cardinality({k \in 1..Len(init) : init[k].order <= x.order})
       IN InsertAt(init, n, x)

\* --------------------------------------------------- calendar (client)
\* getDayId: `day-yyyy-MM-dd`
GetDayId(date) == <<"day", date>>

\* the parse of a day id back into a date (replace / split / parseInt)
ParseDayId(dayId) == dayId[2]

\* typeof targetId === 'string' && targetId.startsWith('day-')
IsTargetDay(target) == target[1] = "day"

\* getWorkoutsForDay: the collection's workouts of that day, sorted by order
GetWorkoutsForDay(coll, date) ==
  SortByOrder(SelectSeq(coll, LAMBDA w : w.date = date))

\* mutant of Repack: orders count from 1
Repack_OneBased(list) ==
  [k \in 1..Len(list) |-> [id |-> list[k].id, order |-> k, date |-> NoDate]]

\* .map((workout, index) => ({ id, order: index }))
Repack(list) ==
  [k \in 1..Len(list) |-> [id |-> list[k].id, order |-> k - 1, date |-> NoDate]]

\* mutant of RepackDest: every entry of the destination day carries the date
RepackDest_AllDated(list, workoutId, destDate) ==
  [k \in 1..Len(list) |-> [id |-> list[k].id, order |-> k - 1, date |-> destDate]]

\* .map((workout, index) => ({ id, order: index,
\*        date: workout.id === workoutId ? formattedDestinationDate : undefined }))
RepackDest(list, workoutId, destDate) ==
  [k \in 1..Len(list) |->
     [id |-> list[k].id, order |-> k - 1,
      date |-> IF list[k].id = workoutId THEN destDate ELSE NoDate]]

\* ------------------------------------------------ handleDragEnd (client)
\* mutant of InsertIndex: always at the end
InsertIndex_AlwaysEnd(destinationWorkouts, target) == Len(destinationWorkouts)

\* insertion position of a cross-day move in the destination day's list
InsertIndex(destinationWorkouts, target) ==
  IF ~IsTargetDay(target)
  THEN LET targetIndex == FindIndex(destinationWorkouts, target[2])
       IN IF targetIndex # 0 - 1 THEN targetIndex ELSE Len(destinationWorkouts)
  ELSE Len(destinationWorkouts)

\* mutant of SameDayPlan: the dragged workout is put right before the target
SameDayPlan_BeforeTarget(sourceWorkouts, workoutId, target) ==
  LET from == FindIndex(sourceWorkouts, workoutId)
      to == FindIndex(sourceWorkouts, target[2])
  IN Repack(InsertAt(RemoveAt(sourceWorkouts, from),
                     IF from < to THEN to - 1 ELSE to,
                     sourceWorkouts[from + 1]))

\* same-day branch: the day's list with the dragged workout array-moved onto
\* the target workout, re-packed
SameDayPlan(sourceWorkouts, workoutId, target) ==
  Repack(ArrayMove(sourceWorkouts,
                   FindIndex(sourceWorkouts, workoutId),
                   FindIndex(sourceWorkouts, target[2])))

\* mutant of CrossDayPlan: the source day is re-packed with the dragged
\* workout still in it
CrossDayPlan_KeepsDragged(sourceWorkouts, destinationWorkouts, draggedWorkout, target, destDate) ==
  Repack(sourceWorkouts)
    \o RepackDest(InsertAt(destinationWorkouts,
                           InsertIndex(destinationWorkouts, target),
                           [draggedWorkout EXCEPT !.date = destDate]),
                  draggedWorkout.id, destDate)

\* cross-day branch: [...sourceUpdates, ...destUpdates]
CrossDayPlan(sourceWorkouts, destinationWorkouts, draggedWorkout, target, destDate) ==
  LET sourceIndex == FindIndex(sourceWorkouts, draggedWorkout.id)
      updatedSourceWorkouts == RemoveAt(sourceWorkouts, sourceIndex)
      insertIndex == InsertIndex(destinationWorkouts, target)
      updatedDestWorkouts ==
        InsertAt(destinationWorkouts, insertIndex,
                 [draggedWorkout EXCEPT !.date = destDate])
  IN Repack(updatedSourceWorkouts)
       \o RepackDest(updatedDestWorkouts, draggedWorkout.id, destDate)

\* mutant of IsNaN: no parse is taken for a failure
IsNaN_Never(x) == FALSE

\* isNaN(year) || isNaN(month) || isNaN(day)
IsNaN(x) == x = NaN

\* mutant of SameDayContainerPlan: the dragged workout moves to the end of
\* its day
SameDayContainerPlan_MoveToEnd(sourceWorkouts, workoutId) ==
  Repack(ArrayMove(sourceWorkouts, FindIndex(sourceWorkouts, workoutId),
                   Len(sourceWorkouts) - 1))

\* same-day branch when the target is the day container: updatedWorkouts
\* stays the empty list
SameDayContainerPlan(sourceWorkouts, workoutId) == <<>>

\* handleDragEnd up to the save: the outcome of one gesture on collection
\* `coll`.  `over` is <<"none">>, <<"day", date>> or <<"w", id>>.
\* outcome "abort" is an early return, "noop" an empty update list,
\* "send" a call of reorderWorkouts(plan).
HandleDragEnd(coll, workoutId, over) ==
  LET Abort == [outcome |-> "abort", plan |-> <<>>, src |-> NoDate, dst |-> NoDate]
  IN
  IF over[1] = "none" THEN Abort
  ELSE IF FindIndex(coll, workoutId) = 0 - 1 THEN Abort
  ELSE IF ~IsTargetDay(over) /\ FindIndex(coll, over[2]) = 0 - 1 THEN Abort
  ELSE
    LET draggedWorkout == Find(coll, workoutId)
        sourceDate == draggedWorkout.date
        sourceDayId == GetDayId(sourceDate)
        sourceWorkouts == GetWorkoutsForDay(coll, sourceDate)
        destinationDayId ==
          IF IsTargetDay(over) THEN over
          ELSE GetDayId(Find(coll, over[2]).date)
        destinationDate == ParseDayId(destinationDayId)
        destinationWorkouts == GetWorkoutsForDay(coll, destinationDate)
        Done(plan) ==
          [outcome |-> IF Len(plan) > 0 THEN "send" ELSE "noop",
           plan |-> plan, src |-> sourceDate, dst |-> destinationDate]
    IN
    IF IsNaN(destinationDate) THEN Abort
    ELSE IF sourceDayId = destinationDayId
    THEN IF ~IsTargetDay(over)
         THEN IF FindIndex(sourceWorkouts, workoutId) = 0 - 1
                 \/ FindIndex(sourceWorkouts, over[2]) = 0 - 1
              THEN Abort
              ELSE Done(SameDayPlan(sourceWorkouts, workoutId, over))
         ELSE Done(SameDayContainerPlan(sourceWorkouts, workoutId))
    ELSE IF FindIndex(sourceWorkouts, workoutId) = 0 - 1
         THEN Abort
         ELSE Done(CrossDayPlan(sourceWorkouts, destinationWorkouts,
                                draggedWorkout, over, destinationDate))

\* ------------------------------------------------------- store (server)
\* where: { userId: session.user.id }
RowsOf(st, user) == {w \in st : w.userId = user}

\* POST /api/workouts: one more than the highest order of the user's
\* workouts on that day, 0 on an empty day
NewOrder(st, user, date) ==
  LET day == {w \in RowsOf(st, user) : w.date = date}
  IN IF day = {} THEN 0
     ELSE (CHOOSE w \in day : \A v \in day : v.order <= w.order).order + 1

\* if (!item.id || item.order === undefined) continue;
Updates(items) == SelectSeq(items, LAMBDA it : it.id # NoId)

\* mutant of CanUpdate: the row exists, whoever owns it
CanUpdate_AnyOwner(st, user, item) == \E w \in st : w.id = item.id

\* prisma.workout.update({ where: { id, userId }, data: { order, date } })
\* on table st: the row exists and is the user's, or the update throws
CanUpdate(st, user, item) == \E w \in st : w.id = item.id /\ w.userId = user

UpdateRow(st, item) ==
  {IF w.id = item.id
   THEN [w EXCEPT !.order = item.order,
                  !.date = IF item.date # NoDate THEN item.date ELSE w.date,
                  !.time = IF item.date # NoDate THEN Midnight ELSE w.time]
   ELSE w : w \in st}

\* the updates of a batch run one after the other on table st; the result is
\* the table after the last update that ran and whether all of them ran
RECURSIVE RunUpdates(_, _, _)
RunUpdates(st, user, ups) ==
  IF Len(ups) = 0 THEN [ok |-> TRUE, st |-> st]
  ELSE IF ~CanUpdate(st, user, Head(ups)) THEN [ok |-> FALSE, st |-> st]
  ELSE RunUpdates(UpdateRow(st, Head(ups)), user, Tail(ups))

\* mutant of Transaction: the updates that ran before the throwing one stay
Transaction_NoRollback(st, user, ups) == RunUpdates(st, user, ups)

\* prisma.$transaction(updates): every update is committed, or a throwing
\* update rolls all of them back
Transaction(st, user, ups) ==
  LET r == RunUpdates(st, user, ups)
  IN IF r.ok THEN r ELSE [ok |-> FALSE, st |-> st]

\* GET /api/workouts: orderBy [{ date: 'desc' }, { order: 'asc' }]
IsGetSorted(q) ==
  \A k \in 1..(Len(q) - 1) :
     \/ q[k].date > q[k + 1].date
     \/ q[k].date = q[k + 1].date /\ q[k].order <= q[k + 1].order

RECURSIVE Perms(_)
Perms(S) ==
  IF S = {} THEN {<<>>}
  ELSE UNION {{<<x>> \o p : p \in Perms(S \ {x})} : x \in S}

\* the responses GET may give: rows with equal keys come in any order
GetResponses(st, user) == {q \in Perms(RowsOf(st, user)) : IsGetSorted(q)}

\* copy-week: the source week's rows of the user
SourceWeekWorkouts(st, user, sourceWeekStart) ==
  {w \in RowsOf(st, user) :
     sourceWeekStart <= w.date /\ w.date <= sourceWeekStart + (DaysPerWeek - 1)}

\* (workoutDate.getDay() + 6) % 7: Monday 0 .. Sunday 6
DayOfWeek(date) == date % DaysPerWeek

\* the order in which copy-week creates the copies: by day of week, then by
\* order within the day
CopyOrder(rows) ==
  CHOOSE q \in Perms(rows) :
    \A k \in 1..(Len(q) - 1) :
       \/ DayOfWeek(q[k].date) < DayOfWeek(q[k + 1].date)
       \/ /\ DayOfWeek(q[k].date) = DayOfWeek(q[k + 1].date)
          /\ \/ q[k].order < q[k + 1].order
             \/ q[k].order = q[k + 1].order /\ q[k].id < q[k + 1].id

\* the orders in which copy-week may create the copies: findMany has no
\* orderBy, so source rows of one day with one order value come either way
CopyOrders(rows) ==
  {q \in Perms(rows) :
     \A k \in 1..(Len(q) - 1) :
        \/ DayOfWeek(q[k].date) < DayOfWeek(q[k + 1].date)
        \/ /\ DayOfWeek(q[k].date) = DayOfWeek(q[k + 1].date)
           /\ q[k].order <= q[k + 1].order}

\* mutant of CopiedOrder: the loop index within the day
CopiedOrder_Index(sourceWorkout, i) == i

\* order: sourceWorkout.order, for the i-th workout of its day
CopiedOrder(sourceWorkout, i) == sourceWorkout.order

\* mutant of CopyRow: the label reference is left out
CopyRow_NoLabel(sourceWorkout, i, user, targetWeekStart, id) ==
  [id |-> id,
   type |-> sourceWorkout.type,
   title |-> sourceWorkout.title,
   description |-> sourceWorkout.description,
   duration |-> sourceWorkout.duration,
   date |-> targetWeekStart + DayOfWeek(sourceWorkout.date),
   time |-> Midnight,
   order |-> CopiedOrder(sourceWorkout, i),
   labelId |-> NoLabel,
   userId |-> user]

\* prisma.workout.create({ data: { type, title, description, duration,
\*   date: targetDate, order: sourceWorkout.order, labelId, userId } })
CopyRow(sourceWorkout, i, user, targetWeekStart, id) ==
  [id |-> id,
   type |-> sourceWorkout.type,
   title |-> sourceWorkout.title,
   description |-> sourceWorkout.description,
   duration |-> sourceWorkout.duration,
   date |-> targetWeekStart + DayOfWeek(sourceWorkout.date),
   time |-> Midnight,
   order |-> CopiedOrder(sourceWorkout, i),
   labelId |-> sourceWorkout.labelId,
   userId |-> user]

\* the rows copy-week has created when the first n creates of copy order q
\* have run, with fresh ids from firstId on
FirstCopies(q, user, targetWeekStart, firstId, n) ==
  {CopyRow(q[k],
           Cardinality({j \in 1..(k - 1) :
                          DayOfWeek(q[j].date) = DayOfWeek(q[k].date)}),
           user, targetWeekStart, firstId + k - 1) : k \in 1..n}

\* the rows copy-week creates, with fresh ids from firstId on
Copies(rows, user, targetWeekStart, firstId) ==
  LET q == CopyOrder(rows)
  IN FirstCopies(q, user, targetWeekStart, firstId, Len(q))

\* ------------------------------------------------------- pending calls
\* one pending async call of WorkoutProvider.  kind: "add", "delete",
\* "reorder", "copy"; pc: the await it is suspended at ("server": the
\* mutating request is on its way, "get": the refetch is on its way,
\* "resp": the response is on its way back)
Idle ==
  [kind |-> "idle", pc |-> "idle", wid |-> NoId, day |-> NoDate,
   day2 |-> NoDate, over |-> <<"none">>, basis |-> <<>>, plan |-> <<>>,
   src |-> NoDate, dst |-> NoDate, snap |-> <<>>, ok |-> FALSE,
   form |-> Form1]

Slots == 1..MaxInflight
FreeSlots == {s \in Slots : inflight[s].kind = "idle"}
FirstFree == CHOOSE s \in FreeSlots : \A t \in FreeSlots : s <= t

NoPatch ==
  [handled |-> FALSE, ok |-> FALSE, wid |-> NoId, over |-> <<"none">>,
   plan |-> <<>>, basis |-> <<>>, src |-> NoDate, dst |-> NoDate,
   before |-> {}, after |-> {}]

NoEnd ==
  [ended |-> FALSE, kind |-> "idle", failed |-> FALSE, refetched |-> FALSE,
   shown |-> "none"]

NoGesture ==
  [ended |-> FALSE, outcome |-> "none", wid |-> NoId, over |-> <<"none">>,
   plan |-> <<>>, src |-> NoDate, dst |-> NoDate]

\* the end of handleDragEnd for a gesture and its outcome
Gesture(workoutId, over, r) ==
  [ended |-> TRUE, outcome |-> r.outcome, wid |-> workoutId, over |-> over,
   plan |-> r.plan, src |-> r.src, dst |-> r.dst]

\* copyWorkoutsToWeek catches whatever its requests throw and returns false
CopyWorkoutsToWeekThrows(failed) == FALSE

\* handleCopyWeek after `await copyWorkoutsToWeek(...)`: the boolean result
\* is dropped; setSuccess(true) unless the call threw, setError(...) if it did
DialogAfterCopy(threw) == IF threw THEN "error" ELSE "success"

\* handleDragEnd after `await reorderWorkouts(...)`: console output only
AfterReorder(failed) == "none"

\* the end of a reorder or copy-week call and what the user is shown
Ended(kind, failed, refetched) ==
  [ended |-> TRUE, kind |-> kind, failed |-> failed, refetched |-> refetched,
   shown |-> IF kind = "copy"
             THEN DialogAfterCopy(CopyWorkoutsToWeekThrows(failed))
             ELSE AfterReorder(failed)]

\* useWeeklyData's initial state
InitialWeeklyData ==
  [swim |-> [total |-> 0, byLabel |-> <<>>],
   bike |-> [total |-> 0, byLabel |-> <<>>],
   run |-> [total |-> 0, byLabel |-> <<>>],
   total |-> 0, dailyBreakdown |-> <<>>, maxValue |-> 1]

NoSorted == [intensity |-> <<>>, legend |-> <<>>]

Init ==
  /\ store = {}
  /\ nextId = 1
  /\ workouts = <<>>
  /\ inflight = [s \in Slots |-> Idle]
  /\ ops = 0
  /\ lastPatch = NoPatch
  /\ lastEnd = NoEnd
  /\ lastGesture = NoGesture
  /\ currentWeekStart = NoDate
  /\ labels = {}
  /\ weeklyData = InitialWeeklyData
  /\ zones = <<>>
  /\ sortedZones = NoSorted

\* ----------------------------------------------------- client: requests
\* addWorkout: POST /api/workouts is sent
AddWorkout(date, form) ==
  /\ FreeSlots # {}
  /\ ops < MaxOps
  /\ ops' = ops + 1
  /\ inflight' = [inflight EXCEPT ![FirstFree] =
                    [Idle EXCEPT !.kind = "add", !.pc = "server", !.day = date,
                                 !.form = form]]
  /\ lastPatch' = NoPatch
  /\ lastGesture' = NoGesture
  /\ lastEnd' = NoEnd
  /\ UNCHANGED <<store, nextId, workouts>>
  /\ UNCHANGED sumVars

\* deleteWorkout of a displayed workout: DELETE /api/workouts/:id is sent
DeleteWorkout(id) ==
  /\ FreeSlots # {}
  /\ ops < MaxOps
  /\ ops' = ops + 1
  /\ FindIndex(workouts, id) # 0 - 1
  /\ inflight' = [inflight EXCEPT ![FirstFree] =
                    [Idle EXCEPT !.kind = "delete", !.pc = "server", !.wid = id]]
  /\ lastPatch' = NoPatch
  /\ lastGesture' = NoGesture
  /\ lastEnd' = NoEnd
  /\ UNCHANGED <<store, nextId, workouts>>
  /\ UNCHANGED sumVars

\* handleDragEnd: the plan is computed from the collection of the current
\* render and, when not empty, reorderWorkouts sends it (PATCH /api/workouts)
DragEnd(workoutId, over) ==
  LET r == HandleDragEnd(workouts, workoutId, over)
  IN /\ FreeSlots # {}
     /\ ops < MaxOps
     /\ ops' = ops + 1
     /\ r.outcome = "send"
     /\ inflight' = [inflight EXCEPT ![FirstFree] =
                       [Idle EXCEPT !.kind = "reorder", !.pc = "server",
                                    !.wid = workoutId, !.over = over,
                                    !.basis = workouts, !.plan = r.plan,
                                    !.src = r.src, !.dst = r.dst]]
     /\ lastPatch' = NoPatch
     /\ lastGesture' = Gesture(workoutId, over, r)
     /\ lastEnd' = NoEnd
     /\ UNCHANGED <<store, nextId, workouts>>
     /\ UNCHANGED sumVars

\* handleDragEnd when it returns early or its update list is empty: nothing
\* is saved and no state of WorkoutProvider changes
DragEndWithoutSave(workoutId, over) ==
  LET r == HandleDragEnd(workouts, workoutId, over)
  IN /\ r.outcome \in {"abort", "noop"}
     /\ lastGesture' = Gesture(workoutId, over, r)
     /\ lastPatch' = NoPatch
     /\ lastEnd' = NoEnd
     /\ UNCHANGED <<store, nextId, workouts, inflight, ops>>
     /\ UNCHANGED sumVars

\* the source week's workouts in the collection the dialog renders
\* (sourceWeekWorkouts of CopyWeekModal, workoutsToCopy of copyWorkoutsToWeek)
ClientSourceWeek(coll, sourceWeekStart) ==
  SelectSeq(coll, LAMBDA w : /\ sourceWeekStart <= w.date
                             /\ w.date <= sourceWeekStart + (DaysPerWeek - 1))

\* the copy button: disabled={isSubmitting || workoutCounts.total === 0}
CopyDisabled(coll, sourceWeekStart) == Len(ClientSourceWeek(coll, sourceWeekStart)) = 0

\* copyWorkoutsToWeek: with workouts of the source week in the collection,
\* POST /api/workouts/copy-week is sent
CopyWorkoutsToWeek(sourceWeekStart, targetWeekStart) ==
  /\ FreeSlots # {}
  /\ ops < MaxOps
  /\ ops' = ops + 1
  /\ ~CopyDisabled(workouts, sourceWeekStart)
  /\ \E k \in 1..Len(workouts) :
        /\ sourceWeekStart <= workouts[k].date
        /\ workouts[k].date <= sourceWeekStart + (DaysPerWeek - 1)
  /\ inflight' = [inflight EXCEPT ![FirstFree] =
                    [Idle EXCEPT !.kind = "copy", !.pc = "server",
                                 !.day = sourceWeekStart, !.day2 = targetWeekStart]]
  /\ lastPatch' = NoPatch
  /\ lastGesture' = NoGesture
  /\ lastEnd' = NoEnd
  /\ UNCHANGED <<store, nextId, workouts>>
  /\ UNCHANGED sumVars

\* ------------------------------------------------------ server: handlers
\* POST /api/workouts
ServerPost(s, maxId) ==
  LET r == inflight[s]
      row == [id |-> nextId, date |-> r.day, time |-> Midnight,
              order |-> NewOrder(store, User, r.day), userId |-> User,
              type |-> r.form.type, title |-> r.form.title,
              description |-> r.form.description,
              duration |-> r.form.duration, labelId |-> r.form.labelId]
  IN /\ r.kind = "add" /\ r.pc = "server"
     /\ nextId <= maxId
     /\ store' = store \cup {row}
     /\ nextId' = nextId + 1
     /\ inflight' = [inflight EXCEPT ![s] =
                       [r EXCEPT !.pc = "resp", !.ok = TRUE, !.snap = <<row>>]]
     /\ lastPatch' = NoPatch
     /\ lastGesture' = NoGesture
     /\ lastEnd' = NoEnd
     /\ UNCHANGED ops
     /\ UNCHANGED workouts
     /\ UNCHANGED sumVars

\* DELETE /api/workouts/:id
ServerDelete(s) ==
  LET r == inflight[s]
      found == \E w \in store : w.id = r.wid /\ w.userId = User
  IN /\ r.kind = "delete" /\ r.pc = "server"
     /\ store' = IF found THEN {w \in store : w.id # r.wid} ELSE store
     /\ inflight' = [inflight EXCEPT ![s] = [r EXCEPT !.pc = "resp", !.ok = found]]
     /\ lastPatch' = NoPatch
     /\ lastGesture' = NoGesture
     /\ lastEnd' = NoEnd
     /\ UNCHANGED ops
     /\ UNCHANGED <<nextId, workouts>>
     /\ UNCHANGED sumVars

\* PATCH /api/workouts; a 500 makes reorderWorkouts throw, log and return
\* false, which ends the call
ServerPatch(s) ==
  LET r == inflight[s]
      t == Transaction(store, User, Updates(r.plan))
  IN /\ r.kind = "reorder" /\ r.pc = "server"
     /\ store' = t.st
     /\ lastPatch' = [handled |-> TRUE, ok |-> t.ok, wid |-> r.wid,
                      over |-> r.over, plan |-> r.plan, basis |-> r.basis,
                      src |-> r.src, dst |-> r.dst,
                      before |-> store, after |-> t.st]
     /\ inflight' = [inflight EXCEPT ![s] =
                       IF t.ok THEN [r EXCEPT !.pc = "get", !.ok = TRUE] ELSE Idle]
     /\ lastGesture' = NoGesture
     /\ lastEnd' = IF t.ok THEN NoEnd ELSE Ended("reorder", TRUE, FALSE)
     /\ UNCHANGED ops
     /\ UNCHANGED <<nextId, workouts>>
     /\ UNCHANGED sumVars

\* POST /api/workouts/copy-week; a 404 on an empty source week makes
\* copyWorkoutsToWeek throw, log and return false, which ends the call
ServerCopyWeek(s, maxId) ==
  LET r == inflight[s]
      rows == SourceWeekWorkouts(store, User, r.day)
      n == Cardinality(rows)
  IN /\ r.kind = "copy" /\ r.pc = "server"
     /\ nextId + n - 1 <= maxId
     /\ store' = store \cup Copies(rows, User, r.day2, nextId)
     /\ nextId' = nextId + n
     /\ inflight' = [inflight EXCEPT ![s] =
                       IF n > 0 THEN [r EXCEPT !.pc = "get", !.ok = TRUE] ELSE Idle]
     /\ lastPatch' = NoPatch
     /\ lastGesture' = NoGesture
     /\ lastEnd' = IF n > 0 THEN NoEnd ELSE Ended("copy", TRUE, FALSE)
     /\ UNCHANGED ops
     /\ UNCHANGED workouts
     /\ UNCHANGED sumVars

\* POST /api/workouts/copy-week when one of its creates throws: the creates
\* before it stay (the loop runs outside any transaction), the handler
\* answers 500 and copyWorkoutsToWeek throws, logs and returns false
ServerCopyWeekFault(s, maxId) ==
  LET r == inflight[s]
      rows == SourceWeekWorkouts(store, User, r.day)
      n == Cardinality(rows)
  IN /\ r.kind = "copy" /\ r.pc = "server"
     /\ \E q \in CopyOrders(rows) :
          \E done \in 0..(n - 1) :
             /\ nextId + done - 1 <= maxId
             /\ store' = store \cup FirstCopies(q, User, r.day2, nextId, done)
             /\ nextId' = nextId + done
     /\ inflight' = [inflight EXCEPT ![s] = Idle]
     /\ lastPatch' = NoPatch
     /\ lastGesture' = NoGesture
     /\ lastEnd' = Ended("copy", TRUE, FALSE)
     /\ UNCHANGED ops
     /\ UNCHANGED workouts
     /\ UNCHANGED sumVars

\* GET /api/workouts?include=label, the refetch of a reorder or a copy
ServerGet(s) ==
  LET r == inflight[s]
  IN /\ r.kind \in {"reorder", "copy"} /\ r.pc = "get"
     /\ \E q \in GetResponses(store, User) :
           inflight' = [inflight EXCEPT ![s] = [r EXCEPT !.pc = "resp", !.snap = q]]
     /\ lastPatch' = NoPatch
     /\ lastGesture' = NoGesture
     /\ lastEnd' = NoEnd
     /\ UNCHANGED ops
     /\ UNCHANGED <<store, nextId, workouts>>
     /\ UNCHANGED sumVars

\* ---------------------------------------------------- client: responses
\* the awaited response arrives and the call runs to its end
Respond(s) ==
  LET r == inflight[s]
  IN /\ r.pc = "resp"
     /\ workouts' =
          CASE r.kind = "add" -> workouts \o r.snap
            [] r.kind = "delete" ->
                 IF r.ok THEN SelectSeq(workouts, LAMBDA w : w.id # r.wid)
                 ELSE workouts
            [] OTHER -> r.snap
     /\ inflight' = [inflight EXCEPT ![s] = Idle]
     /\ lastPatch' = NoPatch
     /\ lastGesture' = NoGesture
     /\ lastEnd' = IF r.kind \in {"reorder", "copy"}
                   THEN Ended(r.kind, FALSE, TRUE) ELSE NoEnd
     /\ UNCHANGED ops
     /\ UNCHANGED <<store, nextId>>
     /\ UNCHANGED sumVars

\* the calls the user may start, entering one of `forms` in the workout
\* form, on workouts with ids up to maxId
UserStepWith(forms, maxId) ==
  \/ \E d \in CalendarDays, f \in forms : AddWorkout(d, f)
  \/ \E id \in 1..maxId : DeleteWorkout(id)
  \/ \E id \in 1..maxId :
       \E over \in {<<"day", d>> : d \in CalendarDays} \cup {<<"w", t>> : t \in 1..maxId} :
          DragEnd(id, over)
  \/ \E ws \in WeekStarts, wt \in WeekStarts : CopyWorkoutsToWeek(ws, wt)

\* the calls the user may start when calls do not overlap
UserStep == UserStepWith(Forms, MaxIdSeq)

\* the steps by which pending calls go on, the table handing out ids up to
\* maxId
CallStepWith(maxId) ==
  \/ \E s \in Slots : ServerPost(s, maxId)
  \/ \E s \in Slots : ServerDelete(s)
  \/ \E s \in Slots : ServerPatch(s)
  \/ \E s \in Slots : ServerCopyWeek(s, maxId)
  \/ \E s \in Slots : ServerGet(s)
  \/ \E s \in Slots : Respond(s)

CallStep == CallStepWith(MaxId)

Next == UserStepWith({Form1}, MaxId) \/ CallStep

Spec == Init /\ [][Next]_vars

\* one call at a time: the user starts a call only when none is pending
NextSeq ==
  \/ (FreeSlots = Slots /\ UserStep)
  \/ CallStepWith(MaxIdSeq)

SpecSeq == Init /\ [][NextSeq]_vars

\* one call at a time, and a copy-week may fail part-way
NextFault ==
  \/ NextSeq
  \/ \E s \in Slots : ServerCopyWeekFault(s, MaxIdSeq)

SpecFault == Init /\ [][NextFault]_vars

\* where a drag may end: outside every target, on a day container, on an
\* element whose day id does not parse, or on a workout card
DropTargets(maxId) ==
  {<<"none">>} \cup {<<"day", d>> : d \in CalendarDays} \cup {<<"day", NaN>>}
    \cup {<<"w", t>> : t \in 1..maxId}

\* handleDragEnd for a drag of any workout id that ends anywhere
GestureStep(maxId) ==
  \E id \in 1..maxId, over \in DropTargets(maxId) :
     DragEnd(id, over) \/ DragEndWithoutSave(id, over)

\* one call at a time, a drag ending anywhere
NextGesture ==
  \/ (FreeSlots = Slots /\ UserStepWith({Form1}, MaxId))
  \/ (FreeSlots = Slots /\ GestureStep(MaxId))
  \/ CallStepWith(MaxId)

SpecGesture == Init /\ [][NextGesture]_vars

\* =================================================================
\* Another user's workouts in the table
\* =================================================================
MaxBatch == 2       \* items of a batch handed to reorderWorkouts

OtherUser == "u2"   \* session.user.id of another user
OtherId == 9        \* the id of a workout of that user

\* a workout the other user has created on the Monday of week 0
OtherRow ==
  [id |-> OtherId, date |-> 0, time |-> Midnight, order |-> 0,
   userId |-> OtherUser,
   type |-> "Bike", title |-> "t9", description |-> "", duration |-> 90,
   labelId |-> NoLabel]

\* the state after construction when the table holds the other user's workout
InitOwner ==
  /\ store = {OtherRow}
  /\ nextId = 1
  /\ workouts = <<>>
  /\ inflight = [s \in Slots |-> Idle]
  /\ ops = 0
  /\ lastPatch = NoPatch
  /\ lastEnd = NoEnd
  /\ lastGesture = NoGesture
  /\ currentWeekStart = NoDate
  /\ labels = {}
  /\ weeklyData = InitialWeeklyData
  /\ zones = <<>>
  /\ sortedZones = NoSorted

\* the items a batch may hold: a workout of the user or of the other user,
\* a new order value, with or without a new date
BatchItems ==
  [id : {1, 2, OtherId}, order : {3}, date : {NoDate, DaysPerWeek + 1}]

Batches == UNION {[1..n -> BatchItems] : n \in 1..MaxBatch}

\* reorderWorkouts(updatedWorkouts) for any batch: PATCH /api/workouts is sent
ReorderWorkouts(updatedWorkouts) ==
  /\ FreeSlots # {}
  /\ ops < MaxOps
  /\ ops' = ops + 1
  /\ inflight' = [inflight EXCEPT ![FirstFree] =
                    [Idle EXCEPT !.kind = "reorder", !.pc = "server",
                                 !.basis = workouts, !.plan = updatedWorkouts]]
  /\ lastPatch' = NoPatch
  /\ lastGesture' = NoGesture
  /\ lastEnd' = NoEnd
  /\ UNCHANGED <<store, nextId, workouts>>
  /\ UNCHANGED sumVars

\* one call at a time, a batch being any list of items
NextOwner ==
  \/ (FreeSlots = Slots /\ UserStepWith({Form1}, MaxId))
  \/ (FreeSlots = Slots /\ \E b \in Batches : ReorderWorkouts(b))
  \/ CallStepWith(MaxId)

SpecOwner == InitOwner /\ [][NextOwner]_vars

\* =================================================================
\* Weekly summary (useWeeklyData, weekly-summary/utils)
\* =================================================================
MaxRows == 3        \* workouts of the collection the summary is computed from
MaxWeek == 2        \* weeks 0 .. MaxWeek the summary is navigated over
MaxZones == 3       \* zones in a list handed to the sort functions

\* an hour value h is kept as the integer 60 * h (minutes): 1 hour
Hour == 60

\* workout.duration / 60
DurationHours(duration) == duration

\* WorkoutType
WorkoutTypes == {"Swim", "Bike", "Run"}

\* workout.type.toLowerCase() as 'swim' | 'bike' | 'run'
SportType(type) ==
  CASE type = "Swim" -> "swim"
    [] type = "Bike" -> "bike"
    [] type = "Run" -> "run"

\* the reference order of the training zones (zoneOrder)
ZoneOrder ==
  <<"Recovery", "Zone 2", "Tempo", "Sweet Spot", "Threshold", "VO2 Max",
    "Anaerobic", "Sprints", "Unlabeled">>

\* the label and zone names of the model in the order localeCompare puts them
Alphabet ==
  <<"Alpha", "Anaerobic", "constructor", "CustomZone", "Recovery", "Sprints", "Sweet Spot",
    "Tempo", "Threshold", "Unlabeled", "VO2 Max", "Zone 2">>

\* Array.prototype.indexOf on a list of names: 0-based index or -1
IndexOf(list, name) ==
  IF \E k \in 1..Len(list) : list[k] = name
  THEN (CHOOSE k \in 1..Len(list) : list[k] = name) - 1
  ELSE 0 - 1

\* a.localeCompare(b): negative, zero or positive
LocaleCompare(a, b) == IndexOf(Alphabet, a) - IndexOf(Alphabet, b)

\* mutant of CompareZones: names out of the reference order come first
CompareZones_UnknownFirst(a, b) ==
  LET indexA == IndexOf(ZoneOrder, a.name)
      indexB == IndexOf(ZoneOrder, b.name)
  IN IF indexA # 0 - 1 /\ indexB # 0 - 1 THEN indexA - indexB
     ELSE IF indexA # 0 - 1 THEN 1
     ELSE IF indexB # 0 - 1 THEN 0 - 1
     ELSE LocaleCompare(a.name, b.name)

\* the comparator of sortLabelsByIntensity, sortIntensityZones and
\* SegmentedProgressBar
CompareZones(a, b) ==
  LET indexA == IndexOf(ZoneOrder, a.name)
      indexB == IndexOf(ZoneOrder, b.name)
  IN IF indexA # 0 - 1 /\ indexB # 0 - 1 THEN indexA - indexB
     ELSE IF indexA # 0 - 1 THEN 0 - 1
     ELSE IF indexB # 0 - 1 THEN 1
     ELSE LocaleCompare(a.name, b.name)

\* [...list].sort(comparator): a stable sort
RECURSIVE SortZones(_)
SortZones(list) ==
  IF Len(list) = 0 THEN <<>>
  ELSE LET init == SortZones(SubSeq(list, 1, Len(list) - 1))
           x == list[Len(list)]
           n == Cardinality({k \in 1..Len(init) : CompareZones(init[k], x) <= 0})
       IN InsertAt(init, n, x)

SortIntensityZones(list) == SortZones(list)

SortLabelsByIntensity(list) == SortZones(list)

\* labels.find((l) => l.id === workout.labelId)'s name, or 'Unlabeled'
LabelName(lbls, labelId) ==
  IF labelId # NoLabel /\ \E l \in lbls : l.id = labelId
  THEN (CHOOSE l \in lbls : l.id = labelId).name
  ELSE "Unlabeled"

\* workout.labelId || 'no-label'
LabelKey(labelId) == IF labelId # NoLabel THEN labelId ELSE "no-label"

\* byLabel[labelKey] is created with duration 0 when missing, then
\* byLabel[labelKey].duration += durationHours; an object's values come in
\* the order its keys were added
AddByLabel(byLabel, key, name, hours) ==
  IF \E k \in 1..Len(byLabel) : byLabel[k].id = key
  THEN [k \in 1..Len(byLabel) |->
          IF byLabel[k].id = key
          THEN [byLabel[k] EXCEPT !.duration = @ + hours]
          ELSE byLabel[k]]
  ELSE Append(byLabel, [id |-> key, name |-> name, duration |-> hours])

\* mutant of CountWorkout: the label's duration is counted, the sport's
\* total is not
CountWorkout_NoSportTotal(totals, workout, lbls) ==
  LET durationHours == DurationHours(workout.duration)
      sportType == SportType(workout.type)
  IN [totals EXCEPT
        ![sportType] =
           [total |-> @.total,
            byLabel |-> AddByLabel(@.byLabel, LabelKey(workout.labelId),
                                   LabelName(lbls, workout.labelId),
                                   durationHours)],
        !.total = @ + durationHours]

\* the body of dayWorkouts.forEach on weeklyTotals: the sport's total, the
\* grand total and the sport's byLabel entry each grow by the duration
CountWorkout(totals, workout, lbls) ==
  LET durationHours == DurationHours(workout.duration)
      sportType == SportType(workout.type)
  IN [totals EXCEPT
        ![sportType] =
           [total |-> @.total + durationHours,
            byLabel |-> AddByLabel(@.byLabel, LabelKey(workout.labelId),
                                   LabelName(lbls, workout.labelId),
                                   durationHours)],
        !.total = @ + durationHours]

RECURSIVE CountWorkouts(_, _, _)
CountWorkouts(totals, list, lbls) ==
  IF Len(list) = 0 THEN totals
  ELSE CountWorkouts(CountWorkout(totals, Head(list), lbls), Tail(list), lbls)

RECURSIVE SumDuration(_)
SumDuration(list) ==
  IF Len(list) = 0 THEN 0
  ELSE DurationHours(Head(list).duration) + SumDuration(Tail(list))

\* mutant of DayTotals: the day's total leaves the runs out
DayTotals_NoRun(day, dayWorkouts) ==
  [date |-> day,
   swim |-> SumDuration(SelectSeq(dayWorkouts, LAMBDA w : w.type = "Swim")),
   bike |-> SumDuration(SelectSeq(dayWorkouts, LAMBDA w : w.type = "Bike")),
   run |-> SumDuration(SelectSeq(dayWorkouts, LAMBDA w : w.type = "Run")),
   total |-> SumDuration(SelectSeq(dayWorkouts, LAMBDA w : w.type # "Run"))]

\* the body of dayWorkouts.forEach on dayTotals
DayTotals(day, dayWorkouts) ==
  [date |-> day,
   swim |-> SumDuration(SelectSeq(dayWorkouts, LAMBDA w : w.type = "Swim")),
   bike |-> SumDuration(SelectSeq(dayWorkouts, LAMBDA w : w.type = "Bike")),
   run |-> SumDuration(SelectSeq(dayWorkouts, LAMBDA w : w.type = "Run")),
   total |-> SumDuration(dayWorkouts)]

RECURSIVE Flatten(_)
Flatten(lists) ==
  IF Len(lists) = 0 THEN <<>> ELSE Head(lists) \o Flatten(Tail(lists))

Max2(a, b) == IF a >= b THEN a ELSE b

\* mutant of MaxValue: the largest sport total, without the floor of 1
MaxValue_NoFloor(totals) ==
  Max2(Max2(totals.swim.total, totals.bike.total), totals.run.total)

\* Math.max(swim.total, bike.total, run.total, 1)
MaxValue(totals) ==
  Max2(Max2(Max2(totals.swim.total, totals.bike.total), totals.run.total), Hour)

\* mutant of WeekEndTime: the first instant of the week's last day
WeekEndTime_Midnight == Midnight

\* the time of day of endOfWeek(...): 23:59:59.999
WeekEndTime == EndOfDay

\* the day of endOfWeek(currentWeekStart, { weekStartsOn: 1 })
EndOfWeek(weekStart) ==
  weekStart - DayOfWeek(weekStart) + (DaysPerWeek - 1)

\* eachDayOfInterval({ start, end })
EachDayOfInterval(start, end) == [k \in 1..(end - start + 1) |-> start + k - 1]

\* the effect of useWeeklyData for a week start that is not null
UseWeeklyData(coll, lbls, weekStart) ==
  LET weekEnd == EndOfWeek(weekStart)
      daysOfWeek == EachDayOfInterval(weekStart, weekEnd)
      weekWorkouts ==
        SelectSeq(coll, LAMBDA w :
          /\ Instant(w.date, w.time) >= Instant(weekStart, Midnight)
          /\ Instant(w.date, w.time) <= Instant(weekEnd, WeekEndTime))
      DayWorkouts(day) == SelectSeq(weekWorkouts, LAMBDA w : w.date = day)
      zero ==
        [swim |-> [total |-> 0, byLabel |-> <<>>],
         bike |-> [total |-> 0, byLabel |-> <<>>],
         run |-> [total |-> 0, byLabel |-> <<>>],
         total |-> 0]
      weeklyTotals ==
        CountWorkouts(zero,
                      Flatten([k \in 1..Len(daysOfWeek) |-> DayWorkouts(daysOfWeek[k])]),
                      lbls)
  IN [swim |-> weeklyTotals.swim,
      bike |-> weeklyTotals.bike,
      run |-> weeklyTotals.run,
      total |-> weeklyTotals.total,
      dailyBreakdown |->
        [k \in 1..Len(daysOfWeek) |->
           DayTotals(daysOfWeek[k], DayWorkouts(daysOfWeek[k]))],
      maxValue |-> MaxValue(weeklyTotals)]

\* calculateTrainingDays
CalculateTrainingDays(dailyBreakdown) ==
  LET daysWithWorkouts ==
        Cardinality({k \in 1..Len(dailyBreakdown) : dailyBreakdown[k].total > 0})
  IN [trainingDays |-> daysWithWorkouts, restDays |-> 7 - daysWithWorkouts]

\* the names an object literal inherits from Object.prototype: the lookup
\* distribution[name] of one of them yields the inherited function
InheritedKeys ==
  {"constructor", "hasOwnProperty", "isPrototypeOf", "propertyIsEnumerable",
   "toLocaleString", "toString", "valueOf"}

\* distribution[label.name].duration += label.duration, the entry being
\* created with duration 0 when `!distribution[label.name]`; an inherited
\* value is truthy, so for its name no entry is created and the sum lands on
\* the inherited function, which Object.values(distribution) does not list
AddToDistribution(distribution, label) ==
  IF label.name \in InheritedKeys THEN distribution
  ELSE IF \E k \in 1..Len(distribution) : distribution[k].name = label.name
  THEN [k \in 1..Len(distribution) |->
          IF distribution[k].name = label.name
          THEN [distribution[k] EXCEPT !.duration = @ + label.duration]
          ELSE distribution[k]]
  ELSE Append(distribution, [name |-> label.name, duration |-> label.duration])

RECURSIVE AddAllToDistribution(_, _)
AddAllToDistribution(distribution, byLabel) ==
  IF Len(byLabel) = 0 THEN distribution
  ELSE AddAllToDistribution(AddToDistribution(distribution, Head(byLabel)),
                            Tail(byLabel))

\* calculateIntensityDistribution
CalculateIntensityDistribution(weeklyTotals) ==
  LET initial == [k \in 1..Len(ZoneOrder) |-> [name |-> ZoneOrder[k], duration |-> 0]]
      distribution ==
        AddAllToDistribution(initial,
          weeklyTotals.swim.byLabel \o weeklyTotals.bike.byLabel
            \o weeklyTotals.run.byLabel)
  IN SortIntensityZones(SelectSeq(distribution, LAMBDA zone : zone.duration > 0))

\* allLabels[label.id] is set by the first entry with that id
RECURSIVE UniqueById(_)
UniqueById(list) ==
  IF Len(list) = 0 THEN <<>>
  ELSE LET init == UniqueById(SubSeq(list, 1, Len(list) - 1))
           x == list[Len(list)]
       IN IF \E k \in 1..Len(init) : init[k].id = x.id THEN init
          ELSE Append(init, x)

\* extractLegendItems
ExtractLegendItems(weeklyTotals) ==
  LET allLabels ==
        UniqueById(weeklyTotals.swim.byLabel \o weeklyTotals.bike.byLabel
                     \o weeklyTotals.run.byLabel)
  IN SortLabelsByIntensity([k \in 1..Len(allLabels) |->
                              [name |-> allLabels[k].name]])

\* the labels the user may have made
AllLabels ==
  {[id |-> "l1", name |-> "Recovery"], [id |-> "l3", name |-> "CustomZone"]}

\* the labels after the user has renamed the second one
RenamedLabels ==
  {[id |-> "l1", name |-> "Recovery"], [id |-> "l3", name |-> "constructor"]}

\* the workouts a fetched collection may hold: any sport, a day of week 0
\* (its Monday, its Sunday) or the Monday after, no label, a label or a label
\* that is gone; the k-th workout lasts k half-hours and is at the k-th time
\* of its day
SummaryRow(k, type, date, labelId) ==
  [id |-> k, date |-> date, time |-> (k - 1) % TicksPerDay, order |-> k - 1,
   userId |-> User,
   type |-> type, title |-> "t1", description |-> "",
   duration |-> 30 * k, labelId |-> labelId]

SummaryDates == {0, DaysPerWeek - 1, DaysPerWeek}
SummaryLabelIds == {NoLabel, "l1", "l3"}

SummaryCollections ==
  UNION {[1..n -> WorkoutTypes \X SummaryDates \X SummaryLabelIds] : n \in 0..MaxRows}

\* the state after the initial fetch of a user's workouts and labels, the
\* summary panel not yet mounted
InitSummary ==
  /\ \E c \in SummaryCollections :
        workouts = [k \in 1..Len(c) |-> SummaryRow(k, c[k][1], c[k][2], c[k][3])]
  /\ store = Range(workouts)
  /\ nextId = Len(workouts) + 1
  /\ inflight = [s \in Slots |-> Idle]
  /\ ops = 0
  /\ lastPatch = NoPatch
  /\ lastEnd = NoEnd
  /\ lastGesture = NoGesture
  /\ currentWeekStart = NoDate
  /\ labels \in {AllLabels, {l \in AllLabels : l.id # "l3"}, RenamedLabels}
  /\ weeklyData = InitialWeeklyData
  /\ zones = <<>>
  /\ sortedZones = NoSorted

\* mutant of StartOfWeek: the date is not moved back to its Monday
StartOfWeek_SameDay(date) == date

\* startOfWeek(date, { weekStartsOn: 1 })
StartOfWeek(date) == date - DayOfWeek(date)

\* the mount effect of WeeklySummary on day `today`, and the effect of
\* useWeeklyData that follows the change of currentWeekStart
MountSummary(today) ==
  /\ currentWeekStart = NoDate
  /\ currentWeekStart' = StartOfWeek(today)
  /\ weeklyData' = UseWeeklyData(workouts, labels, currentWeekStart')
  /\ UNCHANGED <<store, nextId, workouts, inflight, ops, lastPatch, lastEnd,
               lastGesture>>
  /\ UNCHANGED <<labels, zones, sortedZones>>

\* prevWeek: subWeeks(prev, 1), and the effect of useWeeklyData
PrevWeek ==
  /\ currentWeekStart # NoDate
  /\ currentWeekStart - DaysPerWeek >= 0
  /\ currentWeekStart' = currentWeekStart - DaysPerWeek
  /\ weeklyData' = UseWeeklyData(workouts, labels, currentWeekStart')
  /\ UNCHANGED <<store, nextId, workouts, inflight, ops, lastPatch, lastEnd,
               lastGesture>>
  /\ UNCHANGED <<labels, zones, sortedZones>>

\* nextWeek: addWeeks(prev, 1), and the effect of useWeeklyData
NextWeek ==
  /\ currentWeekStart # NoDate
  /\ currentWeekStart + DaysPerWeek <= DaysPerWeek * MaxWeek
  /\ currentWeekStart' = currentWeekStart + DaysPerWeek
  /\ weeklyData' = UseWeeklyData(workouts, labels, currentWeekStart')
  /\ UNCHANGED <<store, nextId, workouts, inflight, ops, lastPatch, lastEnd,
               lastGesture>>
  /\ UNCHANGED <<labels, zones, sortedZones>>

NextSummary ==
  \/ \E today \in 0..(DaysPerWeek * (MaxWeek + 1) - 1) : MountSummary(today)
  \/ PrevWeek
  \/ NextWeek

SpecSummary == InitSummary /\ [][NextSummary]_vars

\* the zone names a list handed to the sort functions may hold
ZoneNames == {"Recovery", "VO2 Max", "Unlabeled", "CustomZone", "Alpha"}

\* the lists handed to the sort functions; the k-th zone lasts k half-hours
InitZones ==
  /\ \E c \in UNION {[1..n -> ZoneNames] : n \in 0..MaxZones} :
        zones = [k \in 1..Len(c) |-> [name |-> c[k], duration |-> 30 * k]]
  /\ sortedZones = NoSorted
  /\ store = {}
  /\ nextId = 1
  /\ workouts = <<>>
  /\ inflight = [s \in Slots |-> Idle]
  /\ ops = 0
  /\ lastPatch = NoPatch
  /\ lastEnd = NoEnd
  /\ lastGesture = NoGesture
  /\ currentWeekStart = NoDate
  /\ labels = {}
  /\ weeklyData = InitialWeeklyData

\* sortIntensityZones(zones) and sortLabelsByIntensity(zones)
SortTheZones ==
  /\ sortedZones = NoSorted
  /\ zones # <<>>
  /\ sortedZones' = [intensity |-> SortIntensityZones(zones),
                     legend |-> SortLabelsByIntensity(zones)]
  /\ UNCHANGED <<store, nextId, workouts, inflight, ops, lastPatch, lastEnd,
               lastGesture>>
  /\ UNCHANGED <<currentWeekStart, labels, weeklyData, zones>>

NextZones == SortTheZones

SpecZones == InitZones /\ [][NextZones]_vars

\* =================================================================
\* Properties
\* =================================================================
DayRows(st, date) == {w \in RowsOf(st, User) : w.date = date}

\* the day's order values are exactly 0 .. n-1, each used once
Dense(st, date) ==
  LET rows == DayRows(st, date)
  IN /\ {w.order : w \in rows} = 0..(Cardinality(rows) - 1)
     /\ \A w, v \in rows : w.order = v.order => w = v

DatesOf(st) == {w.date : w \in st}
DenseAll(st) == \A d \in DatesOf(st) : Dense(st, d)

\* the collection a plan was computed from is the table the plan is applied to
Fresh(p) ==
  /\ Range(p.basis) = RowsOf(p.before, User)
  /\ Len(p.basis) = Cardinality(Range(p.basis))

Reorders == {inflight[s] : s \in {t \in Slots : inflight[t].kind = "reorder"}}
SameDay(r) == r.src = r.dst
CrossDay(r) == r.src # r.dst

\* the day's list the gesture saw, and the indices of the dragged workout
\* and of the target workout in it
SrcList(r) == GetWorkoutsForDay(r.basis, r.src)
DstList(r) == GetWorkoutsForDay(r.basis, r.dst)
SrcIdx(r) == FindIndex(SrcList(r), r.wid)
TgtIdx(r) == FindIndex(DstList(r), r.over[2])

\* the orders a plan assigns to a workout
PlanOrders(plan, id) == {plan[k].order : k \in {j \in 1..Len(plan) : plan[j].id = id}}

\* ---------------------------------------------------------------- C1
\* C1 (as stated): after a successful reorder plan that was computed from
\* the current collection is applied, on every day the order values are
\* exactly 0 .. n-1 without gaps or duplicates.
C1_EveryDayDense ==
  (lastPatch.handled /\ lastPatch.ok /\ Fresh(lastPatch))
    => DenseAll(lastPatch.after)

\* C1 (amended): after a successful reorder plan that was computed from the
\* current collection is applied, the order values of the gesture's source
\* day and of its destination day are exactly 0 .. n-1 without gaps or
\* duplicates.
C1_TouchedDaysDense ==
  (lastPatch.handled /\ lastPatch.ok /\ Fresh(lastPatch))
    => /\ Dense(lastPatch.after, lastPatch.src)
       /\ Dense(lastPatch.after, lastPatch.dst)
       /\ store = lastPatch.after

\* a cross-day plan from the current collection has been applied and the
\* destination day now holds two workouts or more
C1_Witness ==
  /\ lastPatch.handled /\ lastPatch.ok /\ Fresh(lastPatch)
  /\ lastPatch.src # lastPatch.dst
  /\ Cardinality(DayRows(store, lastPatch.dst)) >= 2

\* ---------------------------------------------------------------- C2
\* C2: no two workouts of one owner on one day have the same order value.
C2_UniqueOrderPerDay ==
  \A w, v \in store :
     (w.userId = v.userId /\ w.date = v.date /\ w.order = v.order) => w = v

\* ---------------------------------------------------------------- C3
\* where array-move puts the element of 0-based index k when the element at
\* index i moves to index j
MovedIdx(k, i, j) ==
  IF k = i THEN j
  ELSE IF i < j /\ i < k /\ k <= j THEN k - 1
  ELSE IF j < i /\ j <= k /\ k < i THEN k + 1
  ELSE k

\* C3: a same-day plan carries no date, and gives every workout of the day
\* the index it has after the array-move of the day's order-sorted list from
\* the dragged workout's index to the target's index.
C3_SameDayIsArrayMove ==
  \A r \in Reorders :
     SameDay(r) =>
       LET L == SrcList(r)
           i == SrcIdx(r)
           j == TgtIdx(r)
       IN /\ Len(r.plan) = Len(L)
          /\ \A k \in 1..Len(r.plan) : r.plan[k].date = NoDate
          /\ \A k \in 0..(Len(L) - 1) :
                /\ r.plan[MovedIdx(k, i, j) + 1].id = L[k + 1].id
                /\ r.plan[MovedIdx(k, i, j) + 1].order = MovedIdx(k, i, j)

\* a same-day plan over a day of three workouts, moving across two positions
C3_Witness ==
  \E r \in Reorders :
     /\ SameDay(r) /\ Len(SrcList(r)) >= 3
     /\ (SrcIdx(r) - TgtIdx(r) >= 2 \/ TgtIdx(r) - SrcIdx(r) >= 2)

\* ---------------------------------------------------------------- C4
\* C4 (as stated): in a same-day drop onto another workout the dragged workout's
\* resulting order is exactly one less than the target's.
C4_ImmediatelyBeforeTarget ==
  \A r \in Reorders :
     (SameDay(r) /\ r.wid # r.over[2]) =>
       \A a \in PlanOrders(r.plan, r.wid), b \in PlanOrders(r.plan, r.over[2]) :
          a = b - 1

\* C4 (amended): in a same-day drop onto another workout the dragged workout
\* takes the target's index: it ends immediately before the target when it
\* is moved up (source index > target index) and immediately after the
\* target when it is moved down (source index < target index).
C4_TakesTargetIndex ==
  \A r \in Reorders :
     (SameDay(r) /\ r.wid # r.over[2]) =>
       LET i == SrcIdx(r)
           j == TgtIdx(r)
           At(k) == r.plan[k + 1]
       IN /\ At(j).id = r.wid /\ At(j).order = j
          /\ i > j => (At(j + 1).id = r.over[2] /\ At(j + 1).order = j + 1)
          /\ i < j => (At(j - 1).id = r.over[2] /\ At(j - 1).order = j - 1)

\* a same-day plan that moves the dragged workout down a day of three
\* workouts and leaves it right after the target
C4_Witness ==
  \E r \in Reorders :
     /\ SameDay(r) /\ Len(SrcList(r)) >= 3
     /\ SrcIdx(r) < TgtIdx(r)
     /\ \E a \in PlanOrders(r.plan, r.wid), b \in PlanOrders(r.plan, r.over[2]) :
           a = b + 1

\* ---------------------------------------------------------------- C5
\* the day the gesture was dropped on: the day container's day, or the day
\* of the target workout in the collection the gesture saw
DropDay(r) ==
  IF r.over[1] = "day" THEN r.over[2] ELSE Find(r.basis, r.over[2]).date

\* C5: in the plan of a cross-day move the dragged workout's entry is the
\* only one that carries a date, that date is the day dropped on, and when
\* the plan has been applied every other workout has the date it had before.
C5_OnlyMovedWorkoutChangesDate ==
  /\ \A r \in Reorders :
        CrossDay(r) =>
          /\ \E k \in 1..Len(r.plan) : r.plan[k].id = r.wid /\ r.plan[k].date # NoDate
          /\ \A k \in 1..Len(r.plan) :
                r.plan[k].date # NoDate =>
                   (r.plan[k].id = r.wid /\ r.plan[k].date = DropDay(r))
  /\ (lastPatch.handled /\ lastPatch.ok /\ CrossDay(lastPatch)) =>
        /\ \A w \in lastPatch.before :
              w.id # lastPatch.wid =>
                 \E v \in lastPatch.after : v.id = w.id /\ v.date = w.date
        /\ \A v \in lastPatch.after :
              v.id = lastPatch.wid => v.date = DropDay(lastPatch)

\* a cross-day plan has been applied to a table of three workouts, onto a
\* day that already held a workout
C5_Witness ==
  /\ lastPatch.handled /\ lastPatch.ok /\ CrossDay(lastPatch)
  /\ Cardinality(lastPatch.before) >= 3
  /\ DayRows(lastPatch.before, lastPatch.dst) # {}
  /\ \E v \in store : v.id = lastPatch.wid /\ v.date = lastPatch.dst

\* ---------------------------------------------------------------- C6
\* C6: the plan of a cross-day move is the source day's order-sorted list
\* without the dragged workout followed by the destination day's
\* order-sorted list with the dragged workout inserted at the end (dropped on
\* the day) or at the target's index (dropped on a workout), every entry
\* having order = its index in its list.
C6_CrossDayInsertion ==
  \A r \in Reorders :
     CrossDay(r) =>
       LET S == SrcList(r)
           D == DstList(r)
           i == SrcIdx(r)
           t == IF r.over[1] = "day" THEN Len(D) ELSE TgtIdx(r)
           n == Len(S) - 1
       IN /\ Len(r.plan) = Len(S) + Len(D)
          /\ \A k \in 1..n :
                /\ r.plan[k].order = k - 1
                /\ r.plan[k].id = IF k <= i THEN S[k].id ELSE S[k + 1].id
          /\ \A k \in 1..(Len(D) + 1) :
                /\ r.plan[n + k].order = k - 1
                /\ r.plan[n + k].id = IF k <= t THEN D[k].id
                                      ELSE IF k = t + 1 THEN r.wid
                                      ELSE D[k - 1].id

\* a cross-day drop onto the second of two workouts of the destination day
C6_Witness ==
  \E r \in Reorders :
     /\ CrossDay(r) /\ r.over[1] = "w"
     /\ Len(DstList(r)) >= 2 /\ TgtIdx(r) = 1
     /\ PlanOrders(r.plan, r.wid) = {1}

\* ---------------------------------------------------------------- C7
\* the last entry of the batch that names each row decides the row
Applied(before, after, plan) ==
  /\ {w.id : w \in after} = {w.id : w \in before}
  /\ \A w \in before :
        \A v \in after :
           v.id = w.id =>
             LET ks == {k \in 1..Len(plan) : plan[k].id = w.id}
             IN IF ks = {} THEN v = w
                ELSE LET last == CHOOSE k \in ks : \A j \in ks : j <= k
                         dated == {k \in ks : plan[k].date # NoDate}
                     IN /\ v.order = plan[last].order
                        /\ dated = {} => v.date = w.date
                        /\ dated # {} =>
                             v.date = plan[CHOOSE k \in dated : \A j \in dated : j <= k].date

\* C7: a batch PATCH is all-or-nothing: when the server has handled it,
\* either every item of the list has been applied to the table or the table
\* is what it was before the request.
C7_BatchAtomic ==
  lastPatch.handled =>
     /\ store = lastPatch.after
     /\ lastPatch.ok => Applied(lastPatch.before, lastPatch.after, lastPatch.plan)
     /\ ~lastPatch.ok => lastPatch.after = lastPatch.before

\* a batch was rejected whose first item names a row that is still in the
\* table with another order, and whose later item names a deleted row
C7_Witness ==
  /\ lastPatch.handled /\ ~lastPatch.ok
  /\ Len(lastPatch.plan) >= 2
  /\ \E w \in store : w.id = lastPatch.plan[1].id /\ w.order # lastPatch.plan[1].order
  /\ store = lastPatch.before

\* ---------------------------------------------------------------- C8
\* C8: at most one reorder gesture is between the sending of its batch and
\* the end of its refetch.
C8_NoOverlappingGestures ==
  Cardinality({s \in Slots : inflight[s].kind = "reorder"}) <= 1

\* ---------------------------------------------------------------- C9
\* C9: a reorder batch that is applied to a table whose days are all dense
\* leaves a day with a duplicate or a gap only if its plan was computed from
\* a collection that is not the table it is applied to (the plan is stale);
\* the witness shows the corruption by two interleaved gestures to be
\* reachable.
C9_CorruptionOnlyByStalePlan ==
  (lastPatch.handled /\ lastPatch.ok
     /\ DenseAll(lastPatch.before) /\ ~DenseAll(lastPatch.after))
    => ~Fresh(lastPatch)

\* the second of two interleaved gestures has been applied: its plan was
\* computed from a collection with the same workouts as the table but
\* other orders or dates (another batch was applied in between), the table
\* was dense on every day before, and now a day has a duplicate or a gap
C9_Witness ==
  /\ lastPatch.handled /\ lastPatch.ok
  /\ {lastPatch.basis[k].id : k \in 1..Len(lastPatch.basis)}
        = {w.id : w \in lastPatch.before}
  /\ Len(lastPatch.basis) = Cardinality(lastPatch.before)
  /\ Range(lastPatch.basis) # lastPatch.before
  /\ DenseAll(Range(lastPatch.basis))
  /\ DenseAll(lastPatch.before)
  /\ ~DenseAll(store)

\* --------------------------------------------------------------- C10
\* the collection holds exactly the rows of the user in the table
SameAsStore(coll, st) ==
  /\ Range(coll) = RowsOf(st, User)
  /\ Len(coll) = Cardinality(RowsOf(st, User))

\* C10: when a reorder or a copy-week call sets the collection from its
\* refetch, the collection equals the user's workouts in the table.
C10_RefetchEqualsStore ==
  [][\A s \in Slots :
        (inflight[s].kind \in {"reorder", "copy"} /\ inflight[s].pc = "resp"
           /\ inflight'[s].kind = "idle")
          => SameAsStore(workouts', store')]_vars

\* --------------------------------------------------------------- C11
\* C11: when a reorder or a copy-week call has ended in failure (its batch
\* was rejected, its copy was rejected or stopped part-way), the collection
\* equals the user's workouts in the table, the copies created before the
\* failure included.
C11_CollectionEqualsStoreAfterFailure ==
  (lastEnd.ended /\ lastEnd.failed) => SameAsStore(workouts, store)

\* --------------------------------------------------------------- C12
\* C12: when a reorder or a copy-week call has ended in failure, the user is
\* shown an error; the copy-week dialog never shows its success confirmation
\* for a failed copy.
C12_FailureShowsError ==
  (lastEnd.ended /\ lastEnd.failed) => lastEnd.shown = "error"

\* --------------------------------------------------------------- C13
\* the summary panel is mounted and shows a week
Mounted == currentWeekStart # NoDate

\* the workouts of the collection on the 7 days of the week shown
WeekWorkouts ==
  SelectSeq(workouts, LAMBDA w : /\ currentWeekStart <= w.date
                                 /\ w.date <= currentWeekStart + 6)

RECURSIVE SumOf(_, _)
SumOf(list, field) ==
  IF Len(list) = 0 THEN 0 ELSE Head(list)[field] + SumOf(Tail(list), field)

Sports == {"swim", "bike", "run"}

\* C13: for the collection and the week shown, the sum of the totals of the
\* dailyBreakdown entries equals swim.total + bike.total + run.total.
C13_DailySumEqualsSportSum ==
  Mounted =>
    SumOf(weeklyData.dailyBreakdown, "total")
      = weeklyData.swim.total + weeklyData.bike.total + weeklyData.run.total

\* a week with workouts of two sports on two days, and a workout of the
\* collection outside the week
C13_Witness ==
  /\ Mounted
  /\ Cardinality({k \in 1..Len(weeklyData.dailyBreakdown) :
                    weeklyData.dailyBreakdown[k].total > 0}) >= 2
  /\ Cardinality({sp \in Sports : weeklyData[sp].total > 0}) >= 2
  /\ Len(WeekWorkouts) < Len(workouts)

\* --------------------------------------------------------------- C14
\* C14: for each sport the durations of its byLabel entries sum up to the
\* sport's weekly total.
C14_LabelSumEqualsSportTotal ==
  Mounted =>
    \A sp \in Sports :
       SumOf(weeklyData[sp].byLabel, "duration") = weeklyData[sp].total

\* a sport with three workouts of the week under two byLabel entries, one
\* of them for a label that is gone
C14_Witness ==
  /\ Mounted
  /\ \E sp \in Sports :
        LET b == weeklyData[sp].byLabel
        IN /\ Len(b) = 2
           /\ Len(SelectSeq(WeekWorkouts, LAMBDA w : SportType(w.type) = sp)) = 3
           /\ \E k \in 1..2 : b[k].id = "l3" /\ b[k].name = "Unlabeled"

\* --------------------------------------------------------------- C15
\* the reference sequence of the zones
Reference ==
  <<"Recovery", "Zone 2", "Tempo", "Sweet Spot", "Threshold", "VO2 Max",
    "Anaerobic", "Sprints">>

IsKnown(name) == IndexOf(Reference, name) # 0 - 1
IsCustom(name) == ~IsKnown(name) /\ name # "Unlabeled"

\* the list is `input` in another order
IsPermutation(list, input) ==
  /\ Len(list) = Len(input)
  /\ \A x \in Range(input) :
        Cardinality({k \in 1..Len(list) : list[k] = x})
          = Cardinality({k \in 1..Len(input) : input[k] = x})

\* zones of the reference sequence come in its order, custom names after
\* every zone of the reference sequence, custom names in alphabetical order
ZoneSorted(list) ==
  \A i \in 1..Len(list) :
     \A j \in (i + 1)..Len(list) :
        LET a == list[i].name
            b == list[j].name
        IN /\ (IsKnown(a) /\ IsKnown(b)) =>
                IndexOf(Reference, a) <= IndexOf(Reference, b)
           /\ ~(IsCustom(a) /\ IsKnown(b))
           /\ (IsCustom(a) /\ IsCustom(b)) =>
                IndexOf(Alphabet, a) <= IndexOf(Alphabet, b)

\* C15: what sortIntensityZones and sortLabelsByIntensity return is their
\* input with the zones of the reference sequence in the order of that
\* sequence, every custom name after all of them, and the custom names in
\* alphabetical order.
C15_ZoneOrdering ==
  sortedZones # NoSorted =>
    /\ IsPermutation(sortedZones.intensity, zones)
    /\ IsPermutation(sortedZones.legend, zones)
    /\ ZoneSorted(sortedZones.intensity)
    /\ ZoneSorted(sortedZones.legend)

NamesOf(list) == [k \in 1..Len(list) |-> list[k].name]

\* VO2 Max, Recovery, CustomZone has been sorted to Recovery, VO2 Max,
\* CustomZone
C15_Witness ==
  /\ NamesOf(zones) = <<"VO2 Max", "Recovery", "CustomZone">>
  /\ NamesOf(sortedZones.intensity) = <<"Recovery", "VO2 Max", "CustomZone">>
  /\ NamesOf(sortedZones.legend) = <<"Recovery", "VO2 Max", "CustomZone">>

\* --------------------------------------------------------------- C16
\* no zone with another name comes after "Unlabeled"
UnlabeledLast(list) ==
  \A i \in 1..Len(list) :
     \A j \in (i + 1)..Len(list) :
        list[i].name = "Unlabeled" => list[j].name = "Unlabeled"

\* C16: in the intensity zones and in the legend of the week shown,
\* "Unlabeled" comes after every other zone, custom names included.
C16_UnlabeledLast ==
  Mounted =>
    /\ UnlabeledLast(CalculateIntensityDistribution(weeklyData))
    /\ UnlabeledLast(ExtractLegendItems(weeklyData))

\* --------------------------------------------------------------- C17
\* C17: for a week without workouts all sport totals and the grand total
\* are 0, dailyBreakdown has exactly 7 entries that are all zero, the
\* intensity zones are empty, maxValue is 1 (hour), there are 0 training
\* days and 7 rest days.
C17_EmptyWeek ==
  (Mounted /\ Len(WeekWorkouts) = 0) =>
    /\ \A sp \in Sports :
          weeklyData[sp].total = 0 /\ weeklyData[sp].byLabel = <<>>
    /\ weeklyData.total = 0
    /\ Len(weeklyData.dailyBreakdown) = 7
    /\ \A k \in 1..Len(weeklyData.dailyBreakdown) :
          LET day == weeklyData.dailyBreakdown[k]
          IN /\ day.date = currentWeekStart + k - 1
             /\ day.swim = 0 /\ day.bike = 0 /\ day.run = 0 /\ day.total = 0
    /\ CalculateIntensityDistribution(weeklyData) = <<>>
    /\ weeklyData.maxValue = Hour
    /\ CalculateTrainingDays(weeklyData.dailyBreakdown)
         = [trainingDays |-> 0, restDays |-> 7]

\* an empty week is shown while the collection holds workouts of other weeks
C17_Witness ==
  /\ Mounted
  /\ Len(WeekWorkouts) = 0
  /\ Len(workouts) >= 2
  /\ weeklyData.maxValue = Hour

\* --------------------------------------------------------------- C18
\* the user's workouts of the 7 days from weekStart on
InWeek(st, weekStart) ==
  {w \in st : /\ w.userId = User
              /\ weekStart <= w.date /\ w.date <= weekStart + 6}

\* c has the day-of-week offset of w in the target week and w's sport type,
\* title, description, duration and label reference
IsCopyOf(c, w, sourceWeekStart, targetWeekStart) ==
  /\ c.date = targetWeekStart + (w.date - sourceWeekStart)
  /\ w.date - sourceWeekStart \in 0..6
  /\ c.type = w.type
  /\ c.title = w.title
  /\ c.description = w.description
  /\ c.duration = w.duration
  /\ c.labelId = w.labelId
  /\ c.userId = w.userId

\* the server has just handled the copy-week request of slot s with success
CopyHandled(s) ==
  /\ inflight[s].kind = "copy" /\ inflight[s].pc = "server"
  /\ inflight'[s].pc = "get"

\* C18: a copy-week request that succeeds leaves every workout that was in
\* the table as it was, and creates for every workout of the source week
\* exactly one new workout, with an id no workout had, at targetWeekStart
\* plus the source workout's day-of-week offset, with the same sport type,
\* title, description, duration and label reference.
C18_CopyWeekCreatesCopies ==
  [][\A s \in Slots :
        CopyHandled(s) =>
          LET r == inflight[s]
              source == InWeek(store, r.day)
              created == store' \ store
          IN /\ store \subseteq store'
             /\ \A c \in created : \A w \in store : c.id # w.id
             /\ \A c, d \in created : c.id = d.id => c = d
             /\ Cardinality(created) = Cardinality(source)
             /\ \E f \in [source -> created] :
                   /\ \A w, v \in source : f[w] = f[v] => w = v
                   /\ \A w \in source : IsCopyOf(f[w], w, r.day, r.day2)]_vars

\* a week with a labelled run and an unlabelled swim on two days has been
\* copied to another week, where both copies now are
C18_Witness ==
  \E s \in Slots :
     /\ inflight[s].kind = "copy" /\ inflight[s].pc = "get"
     /\ inflight[s].day # inflight[s].day2
     /\ \E a, b \in InWeek(store, inflight[s].day) :
           /\ a.type # b.type /\ a.labelId # b.labelId /\ a.date # b.date
           /\ \E ca, cb \in InWeek(store, inflight[s].day2) :
                 /\ IsCopyOf(ca, a, inflight[s].day, inflight[s].day2)
                 /\ IsCopyOf(cb, b, inflight[s].day, inflight[s].day2)
                 /\ Cardinality({a.id, b.id, ca.id, cb.id}) = 4

\* --------------------------------------------------------------- C19
\* C19: every workout a copy-week request creates has the order value of its
\* source workout, whatever the target day holds; the witness shows two
\* workouts of one day sharing an order value after a copy onto a day that
\* held a workout.
C19_CopyKeepsSourceOrder ==
  [][\A s \in Slots :
        CopyHandled(s) =>
          LET r == inflight[s]
              source == InWeek(store, r.day)
              created == store' \ store
          IN \E f \in [created -> source] :
                /\ \A c, d \in created : f[c] = f[d] => c = d
                /\ \A c \in created :
                      /\ IsCopyOf(c, f[c], r.day, r.day2)
                      /\ c.order = f[c].order]_vars

\* a copy onto a day of another week that held a workout has been handled,
\* and the copy shares its order value with that workout
C19_Witness ==
  \E s \in Slots :
     /\ inflight[s].kind = "copy" /\ inflight[s].pc = "get"
     /\ inflight[s].day # inflight[s].day2
     /\ \E w \in InWeek(store, inflight[s].day), c, t \in InWeek(store, inflight[s].day2) :
           /\ IsCopyOf(c, w, inflight[s].day, inflight[s].day2)
           /\ t.id < w.id /\ w.id < c.id
           /\ t.date = c.date /\ t.order = c.order

\* --------------------------------------------------------------- C20
\* C20: the dialog issues a copy request only when the source week holds
\* workouts in the collection it shows, and a copy request for a source week
\* that holds no workout in the table creates no workout and ends with an
\* error shown, never with the success confirmation.
C20_EmptySourceAborted ==
  [][/\ \A s \in Slots :
          (inflight[s].kind = "idle" /\ inflight'[s].kind = "copy")
            => ~CopyDisabled(workouts, inflight'[s].day)
     /\ \A s \in Slots :
          (/\ inflight[s].kind = "copy" /\ inflight[s].pc = "server"
           /\ inflight'[s] # inflight[s]
           /\ InWeek(store, inflight[s].day) = {})
            => /\ store' = store
               /\ lastEnd'.ended /\ lastEnd'.kind = "copy"
               /\ lastEnd'.shown = "error"]_vars

\* --------------------------------------------------------------- C21
\* C21: the week the summary shows starts on a Monday, after the mount
\* effect and after every prevWeek and nextWeek, and dailyBreakdown lists
\* the 7 days Monday .. Sunday of that week in order.
C21_WeekStartsOnMonday ==
  Mounted =>
    /\ DayOfWeek(currentWeekStart) = 0
    /\ Len(weeklyData.dailyBreakdown) = DaysPerWeek
    /\ \A k \in 1..Len(weeklyData.dailyBreakdown) :
          /\ weeklyData.dailyBreakdown[k].date = currentWeekStart + k - 1
          /\ DayOfWeek(weeklyData.dailyBreakdown[k].date) = k - 1

\* the week after week 0 is shown, with its Monday's workout counted on the
\* first day of dailyBreakdown and on no other
C21_Witness ==
  /\ Mounted
  /\ currentWeekStart = DaysPerWeek
  /\ Len(weeklyData.dailyBreakdown) = DaysPerWeek
  /\ weeklyData.dailyBreakdown[1].total > 0
  /\ \A k \in 2..DaysPerWeek : weeklyData.dailyBreakdown[k].total = 0

\* --------------------------------------------------------------- C22
\* the rows of the table that are not the signed-in user's
OthersRows(st) == {w \in st : w.userId # User}

\* the server has just handled the batch of slot s
PatchHandled(s) ==
  /\ inflight[s].kind = "reorder" /\ inflight[s].pc = "server"
  /\ inflight'[s] # inflight[s]

\* the batch names a workout of another user
NamesOthers(st, items) ==
  \E k \in 1..Len(items) : \E w \in OthersRows(st) : w.id = items[k].id

\* C22: no step changes a workout of another user; a batch of the user that
\* names a workout of another user changes nothing at all; a copy-week of
\* the user creates workouts of the user only, each the copy of a workout of
\* the user.
C22_OwnerScoped ==
  [][/\ OthersRows(store') = OthersRows(store)
     /\ \A s \in Slots :
          (PatchHandled(s) /\ NamesOthers(store, inflight[s].plan))
            => store' = store
     /\ \A s \in Slots :
          CopyHandled(s) =>
            \A c \in store' \ store :
               /\ c.userId = User
               /\ \E w \in RowsOf(store, User) :
                     IsCopyOf(c, w, inflight[s].day, inflight[s].day2)]_vars

\* the user has copied week 0, which holds a workout of each of the two
\* users, and only the user's workout has a copy; then a batch naming the
\* user's workout first and the other user's workout second was rejected
\* and the user's workout has kept its order
C22_Witness ==
  /\ lastPatch.handled /\ ~lastPatch.ok
  /\ Len(lastPatch.plan) = 2
  /\ lastPatch.plan[1].id = 1 /\ lastPatch.plan[2].id = OtherId
  /\ store = lastPatch.before
  /\ OtherRow \in store
  /\ \E w \in RowsOf(store, User) :
        w.id = 1 /\ w.date = 0 /\ w.order # lastPatch.plan[1].order
  /\ Cardinality({c \in store : c.date = DaysPerWeek}) = 1
  /\ \A c \in store : c.date = DaysPerWeek => c.userId = User

\* --------------------------------------------------------------- C23
\* the collection holds a workout with that id
InCollection(coll, id) == FindIndex(coll, id) # 0 - 1

\* C23: a gesture that ends on a workout id the collection does not hold is
\* not aborted: its plan is the one that moves the dragged workout to the end
\* of its own day.
C23_MissingTargetFallsBack ==
  [][(/\ lastGesture'.ended
      /\ lastGesture'.over[1] = "w"
      /\ InCollection(workouts, lastGesture'.wid)
      /\ ~InCollection(workouts, lastGesture'.over[2]))
       => LET sourceWorkouts ==
                GetWorkoutsForDay(workouts, Find(workouts, lastGesture'.wid).date)
          IN /\ lastGesture'.outcome # "abort"
             /\ lastGesture'.plan =
                  Repack(ArrayMove(sourceWorkouts,
                                   FindIndex(sourceWorkouts, lastGesture'.wid),
                                   Len(sourceWorkouts) - 1))]_vars

\* --------------------------------------------------------------- C24
\* C24: a gesture that ends on the day container of the dragged workout's
\* own day has an empty update list, starts no request and leaves the
\* collection and the table as they were.
C24_SameDayContainerNoOp ==
  [][(/\ lastGesture'.ended
      /\ lastGesture'.over[1] = "day"
      /\ InCollection(workouts, lastGesture'.wid)
      /\ Find(workouts, lastGesture'.wid).date = lastGesture'.over[2])
       => /\ lastGesture'.outcome = "noop"
          /\ lastGesture'.plan = <<>>
          /\ inflight' = inflight
          /\ workouts' = workouts
          /\ store' = store]_vars

\* the first of two workouts of a day has been dropped on the container of
\* that day
C24_Witness ==
  /\ lastGesture.ended /\ lastGesture.outcome = "noop"
  /\ lastGesture.over[1] = "day"
  /\ InCollection(workouts, lastGesture.wid)
  /\ Find(workouts, lastGesture.wid).date = lastGesture.over[2]
  /\ LET day == GetWorkoutsForDay(workouts, lastGesture.over[2])
     IN Len(day) >= 2 /\ day[1].id = lastGesture.wid
  /\ \A s \in Slots : inflight[s].kind = "idle"

\* --------------------------------------------------------------- C25
\* C25: a gesture that ends outside every target, or whose dragged workout
\* is not in the collection, or whose destination day id does not parse,
\* is aborted: no update list, no request, and the collection and the table
\* stay as they were.
C25_AbortedGestureChangesNothing ==
  [][(/\ lastGesture'.ended
      /\ \/ lastGesture'.over = <<"none">>
         \/ ~InCollection(workouts, lastGesture'.wid)
         \/ lastGesture'.over = <<"day", NaN>>)
       => /\ lastGesture'.outcome = "abort"
          /\ lastGesture'.plan = <<>>
          /\ inflight' = inflight
          /\ workouts' = workouts
          /\ store' = store]_vars

\* a workout of a collection of two has been dropped on an element whose day
\* id does not parse
C25_Witness ==
  /\ lastGesture.ended /\ lastGesture.outcome = "abort"
  /\ lastGesture.over = <<"day", NaN>>
  /\ InCollection(workouts, lastGesture.wid)
  /\ Len(workouts) >= 2
  /\ \A s \in Slots : inflight[s].kind = "idle"

\* --------------------------------------------------------------- C26
\* the batch just applied is the plan of a workout dropped onto itself,
\* computed from the collection that equals the table
SelfDropApplied(p) ==
  /\ p.handled /\ p.ok /\ Fresh(p)
  /\ p.over = <<"w", p.wid>>

\* C26 (as stated): when the plan of a workout dropped onto itself has been
\* applied, every workout has the order value and the date it had before.
C26_SelfDropKeepsOrders ==
  SelfDropApplied(lastPatch) => lastPatch.after = lastPatch.before

\* C26 (amended): the plan of a workout dropped onto itself carries no date
\* and gives every workout of the day its index in the day's order-sorted
\* list; when it has been applied the workouts of the day come in the
\* sequence they came in before, no date has changed, the workouts of other
\* days are as they were, and the order values are the ones they were
\* whenever the day's order values were 0 .. n-1 before.
C26_SelfDropKeepsSequence ==
  SelfDropApplied(lastPatch) =>
    LET p == lastPatch
        L == SrcList(p)
    IN /\ p.src = p.dst
       /\ \A k \in 1..Len(p.plan) : p.plan[k].date = NoDate
       /\ {w.id : w \in p.after} = {w.id : w \in p.before}
       /\ \A k \in 1..Len(L) :
             \E v \in p.after :
                v = [L[k] EXCEPT !.order = k - 1]
       /\ \A w \in p.before : w.date # p.src => w \in p.after
       /\ Dense(p.before, p.src) => p.after = p.before

\* the second of two workouts of a day was dropped onto itself and the
\* table is what it was
C26_Witness ==
  /\ SelfDropApplied(lastPatch)
  /\ Len(SrcList(lastPatch)) >= 2
  /\ SrcIdx(lastPatch) = 1
  /\ Dense(lastPatch.before, lastPatch.src)
  /\ store = lastPatch.before

\* --------------------------------------------------------------- C27
\* C27: each sport's weekly total is the sum of the durations of that
\* sport's workouts of the collection on the 7 days from the week start on,
\* whatever their time of day, and the grand total is the sum over all
\* workouts of those days; workouts of other days add nothing.
C27_WeekRangeByCalendarDay ==
  Mounted =>
    /\ \A sp \in Sports :
          weeklyData[sp].total
            = SumDuration(SelectSeq(WeekWorkouts,
                                    LAMBDA w : SportType(w.type) = sp))
    /\ weeklyData.total = SumDuration(WeekWorkouts)

\* the week shown has a workout on its Sunday at the last instant of the
\* day and one on its Monday at midnight, both counted, and the collection
\* holds a workout on the Monday after
C27_Witness ==
  /\ Mounted
  /\ \E k \in 1..Len(workouts) :
        /\ workouts[k].date = currentWeekStart + 6
        /\ workouts[k].time = EndOfDay
  /\ \E k \in 1..Len(workouts) :
        /\ workouts[k].date = currentWeekStart
        /\ workouts[k].time = Midnight
  /\ \E k \in 1..Len(workouts) : workouts[k].date = currentWeekStart + 7
  /\ Len(WeekWorkouts) = 2
  /\ weeklyData.total = SumDuration(WeekWorkouts)

\* --------------------------------------------------------------- C28
\* the names under which the workouts of the week shown are accounted
WeekLabelNames ==
  {LabelName(labels, WeekWorkouts[k].labelId) : k \in 1..Len(WeekWorkouts)}

\* the hours of the week shown under that name, over all sports
HoursUnder(name) ==
  SumDuration(SelectSeq(WeekWorkouts,
                        LAMBDA w : LabelName(labels, w.labelId) = name))

\* C28: the intensity zones of the week shown hold exactly one entry for
\* every label name with positive hours, with those hours as its duration,
\* and no other entry; workouts without label and workouts whose label is
\* gone count under "Unlabeled".
C28_OneZonePerLabelName ==
  Mounted =>
    LET intensityZones == CalculateIntensityDistribution(weeklyData)
    IN /\ \A name \in WeekLabelNames :
             HoursUnder(name) > 0 =>
               /\ Cardinality({k \in 1..Len(intensityZones) :
                                 intensityZones[k].name = name}) = 1
               /\ \A k \in 1..Len(intensityZones) :
                     intensityZones[k].name = name =>
                       intensityZones[k].duration = HoursUnder(name)
       /\ \A k \in 1..Len(intensityZones) :
             /\ intensityZones[k].duration > 0
             /\ intensityZones[k].name \in WeekLabelNames

\* --------------------------------------------------------------- C29
\* C29: the durations of the intensity zones of the week shown sum up to
\* the weekly grand total swim + bike + run.
C29_ZonesSumToTotal ==
  Mounted =>
    SumOf(CalculateIntensityDistribution(weeklyData), "duration")
      = weeklyData.swim.total + weeklyData.bike.total + weeklyData.run.total

\* --------------------------------------------------------------- C30
\* C30: a plan handleDragEnd has emitted names no workout id twice and names
\* only workouts that the collection it was computed from holds on the
\* gesture's source day or destination day; when the plan has been applied,
\* every workout that collection does not hold on one of these two days has
\* the order and the date it had before.
C30_PlanNamesTouchedDaysOnce ==
  /\ \A r \in Reorders :
        /\ \A j, k \in 1..Len(r.plan) : r.plan[j].id = r.plan[k].id => j = k
        /\ \A k \in 1..Len(r.plan) :
              \E i \in 1..Len(r.basis) :
                 /\ r.basis[i].id = r.plan[k].id
                 /\ r.basis[i].date \in {r.src, r.dst}
  /\ (lastPatch.handled /\ lastPatch.ok) =>
        \A w \in lastPatch.before :
           (\A i \in 1..Len(lastPatch.basis) :
               lastPatch.basis[i].id = w.id
                 => lastPatch.basis[i].date \notin {lastPatch.src, lastPatch.dst})
             => w \in lastPatch.after

====
